---- MODULE Spec2Model ----
(***************************************************************************)
(* A model of yohane's lyrics module (src/yohane/lyrics.py): the text      *)
(* normalizer, the Lyrics -> Line -> Word hierarchy with its cached        *)
(* properties, and the syllable splitters.                                 *)
(*                                                                         *)
(* A Python str is modelled as a sequence of one-character strings, so     *)
(* that every per-character step of the code is computed, not assumed.     *)
(* A cached_property slot is <<>> while unset and <<v>> once computed.     *)
(***************************************************************************)
EXTENDS Integers, Sequences, FiniteSets, TLC

VARIABLES line, lyrics, word, insts, observed, firsts, held, heap, mutated

vars == <<line, lyrics, word, insts, observed, firsts, held, heap, mutated>>

----------------------------------------------------------------------------
(* Bounds of the model.                                                    *)

\* longest raw text of the Line of SpecLine
MaxLineLen == 4

\* longest raw text of the Lyrics of Spec
MaxLyricsLen == 4

\* longest enumerated word of SpecSplit
MaxWordLen == 3

----------------------------------------------------------------------------
(* Generic string helpers.                                                 *)

\* all sequences over S of length 0..n
StringsUpTo(S, n) == UNION {[1..k -> S] : k \in 0..n}

RECURSIVE DropWhileIn(_, _)
\* s without its longest prefix of characters of S
DropWhileIn(s, S) ==
    IF s # <<>> /\ Head(s) \in S THEN DropWhileIn(Tail(s), S) ELSE s

RECURSIVE TakeWhileNotIn(_, _)
\* the longest prefix of s holding no character of S
TakeWhileNotIn(s, S) ==
    IF s # <<>> /\ Head(s) \notin S
    THEN <<Head(s)>> \o TakeWhileNotIn(Tail(s), S)
    ELSE <<>>

RECURSIVE Reverse(_)
Reverse(s) == IF s = <<>> THEN <<>> ELSE Reverse(Tail(s)) \o <<Head(s)>>

RECURSIVE Concat(_)
\* "".join(parts)
Concat(parts) == IF parts = <<>> THEN <<>> ELSE Head(parts) \o Concat(Tail(parts))

RECURSIVE FilterNonEmpty(_)
\* list(filter(None, parts)): the non-empty strings of parts, in order
FilterNonEmpty(parts) ==
    IF parts = <<>> THEN <<>>
    ELSE IF Head(parts) = <<>> THEN FilterNonEmpty(Tail(parts))
    ELSE <<Head(parts)>> \o FilterNonEmpty(Tail(parts))

----------------------------------------------------------------------------
(* Character classes.                                                      *)

UpperLetters == <<"A","B","C","D","E","F","G","H","I","J","K","L","M",
                  "N","O","P","Q","R","S","T","U","V","W","X","Y","Z">>
LowerLetters == <<"a","b","c","d","e","f","g","h","i","j","k","l","m",
                  "n","o","p","q","r","s","t","u","v","w","x","y","z">>

AsciiLower == {LowerLetters[i] : i \in 1..26}
Digits == {"0","1","2","3","4","5","6","7","8","9"}

\* the characters str.strip() and str.split() treat as whitespace, among
\* those a text of this model can hold
Whitespace == {" ", "\n"}

\* the class [^a-z'\n ()] of normalize_uroman's first re.sub, complemented
Kept == AsciiLower \cup {"'", "\n", " ", "(", ")"}

----------------------------------------------------------------------------
(* normalize_uroman, step by step.                                         *)

\* str.lower() on one character
LowerChar(c) ==
    IF \E i \in 1..26 : UpperLetters[i] = c
    THEN LowerLetters[CHOOSE i \in 1..26 : UpperLetters[i] = c]
    ELSE c

\* text.lower()
Lower(s) == [i \in 1..Len(s) |-> LowerChar(s[i])]

\* text.replace("'", "'"): both arguments are the ASCII apostrophe
ReplaceApostrophe(s) == [i \in 1..Len(s) |-> IF s[i] = "'" THEN "'" ELSE s[i]]

\* re.sub("([^a-z'\n ()])", " ", text)
SubOther(s) == [i \in 1..Len(s) |-> IF s[i] \in Kept THEN s[i] ELSE " "]

RECURSIVE SubNewlineRuns(_)
\* re.sub("\n[\n ]+", "\n", text): leftmost, greedy, non-overlapping
SubNewlineRuns(s) ==
    IF s = <<>> THEN <<>>
    ELSE IF Head(s) = "\n" /\ Len(s) >= 2 /\ s[2] \in {"\n", " "}
    THEN <<"\n">> \o SubNewlineRuns(DropWhileIn(Tail(s), {"\n", " "}))
    ELSE <<Head(s)>> \o SubNewlineRuns(Tail(s))

RECURSIVE SubSpaceRuns(_)
\* re.sub(" +", " ", text)
SubSpaceRuns(s) ==
    IF s = <<>> THEN <<>>
    ELSE IF Head(s) = " "
    THEN <<" ">> \o SubSpaceRuns(DropWhileIn(Tail(s), {" "}))
    ELSE <<Head(s)>> \o SubSpaceRuns(Tail(s))

\* text.strip()
Strip(s) == Reverse(DropWhileIn(Reverse(DropWhileIn(s, Whitespace)), Whitespace))

\* a plausible slip: the newline runs are collapsed before the other
\* characters are turned into spaces
normalize_uroman_reordered(s) ==
    Strip(SubSpaceRuns(SubOther(SubNewlineRuns(ReplaceApostrophe(Lower(s))))))

normalize_uroman(s) ==
    Strip(SubSpaceRuns(SubNewlineRuns(SubOther(ReplaceApostrophe(Lower(s))))))

----------------------------------------------------------------------------
(* str.split(), str.splitlines(), strip_parens.                            *)

RECURSIVE SplitOnSpace(_)
\* a plausible slip: s.split(" "), which keeps the empty strings between
\* separators and answers [""] for the empty string
SplitOnSpace(s) ==
    LET tok == TakeWhileNotIn(s, Whitespace)
    IN  IF Len(tok) = Len(s) THEN <<tok>>
        ELSE <<tok>> \o SplitOnSpace(SubSeq(s, Len(tok) + 2, Len(s)))

RECURSIVE Split(_)
\* s.split(): the maximal runs of non-whitespace characters, in order
Split(s) ==
    LET t == DropWhileIn(s, Whitespace)
        tok == TakeWhileNotIn(t, Whitespace)
    IN  IF t = <<>> THEN <<>>
        ELSE <<tok>> \o Split(SubSeq(t, Len(tok) + 1, Len(t)))

\* the line boundaries of str.splitlines() a text of this model can hold
LineBoundaries == {"\n"}

RECURSIVE SplitLines(_)
\* s.splitlines(): the text between line boundaries, no final empty line
SplitLines(s) ==
    LET ln == TakeWhileNotIn(s, LineBoundaries)
        rest == SubSeq(s, Len(ln) + 1, Len(s))
    IN  IF s = <<>> THEN <<>>
        ELSE IF rest = <<>> THEN <<ln>>
        ELSE <<ln>> \o SplitLines(Tail(rest))

RECURSIVE strip_parens(_)
\* text.replace("(", "").replace(")", "")
strip_parens(s) ==
    IF s = <<>> THEN <<>>
    ELSE IF Head(s) \in {"(", ")"} THEN strip_parens(Tail(s))
    ELSE <<Head(s)>> \o strip_parens(Tail(s))

----------------------------------------------------------------------------
(* The dataclasses and their cached properties.  An instance is a record   *)
(* of its fields and its cache slots; computed counts, per property, how   *)
(* often the property's function body ran on the instance.                 *)

NeverComputed ==
    [normalized |-> 0, transcript |-> 0, transcript_for_alignment |-> 0,
     lines |-> 0, words |-> 0, syllables |-> 0]

Lyrics(raw, language) ==
    [class |-> "Lyrics", raw |-> raw, language |-> language,
     normalized |-> <<>>, transcript |-> <<>>, transcript_for_alignment |-> <<>>,
     lines |-> <<>>, computed |-> NeverComputed]

Line(raw, language) ==
    [class |-> "Line", raw |-> raw, language |-> language,
     normalized |-> <<>>, transcript |-> <<>>, transcript_for_alignment |-> <<>>,
     words |-> <<>>, computed |-> NeverComputed]

Word(raw, language) ==
    [class |-> "Word", raw |-> raw, language |-> language,
     normalized |-> <<>>, transcript |-> <<>>, transcript_for_alignment |-> <<>>,
     syllables |-> <<>>, computed |-> NeverComputed]

\* functools.cached_property as a plain property: the body runs on every read
property(o, name, after, value) ==
    [after EXCEPT ![name] = <<value>>, !.computed[name] = @ + 1]

\* functools.cached_property: when the instance holds a value for the name it
\* is returned; otherwise the body runs (leaving the instance as `after`,
\* with whatever the body itself read and cached) and its result is stored
cached_property(o, name, after, value) ==
    IF o[name] # <<>> THEN o
    ELSE [after EXCEPT ![name] = <<value>>, !.computed[name] = @ + 1]

\* _Text.normalized
normalized(o) ==
    cached_property(o, "normalized", o, normalize_uroman(o.raw))

\* _Text.transcript; the body reads self.normalized
transcript(o) ==
    LET o1 == normalized(o)
    IN  cached_property(o, "transcript", o1, Split(o1.normalized[1]))

\* _Text.transcript_for_alignment; the body reads self.normalized
transcript_for_alignment(o) ==
    LET o1 == normalized(o)
    IN  cached_property(o, "transcript_for_alignment", o1,
                        Split(strip_parens(o1.normalized[1])))

\* a plausible slip: the filter(None, ...) around splitlines() is left out
lines_unfiltered(o) ==
    LET raws == SplitLines(o.raw)
    IN  cached_property(o, "lines", o,
                        [i \in 1..Len(raws) |-> Line(raws[i], o.language)])

\* Lyrics.lines
lines(o) ==
    LET raws == FilterNonEmpty(SplitLines(o.raw))
    IN  cached_property(o, "lines", o,
                        [i \in 1..Len(raws) |-> Line(raws[i], o.language)])

\* Line.words; the body reads self.transcript
words(o) ==
    LET o1 == transcript(o)
        toks == FilterNonEmpty(o1.transcript[1])
    IN  cached_property(o, "words", o1,
                        [i \in 1..Len(toks) |-> Word(toks[i], o1.language)])

----------------------------------------------------------------------------
(* The syllable splitters.                                                 *)

Vowels == {"a", "e", "i", "o", "u"}

\* [:alnum:], among the characters a text of this model can hold
IsAlnum(c) == LowerChar(c) \in AsciiLower \cup Digits

\* a plausible slip: the (?<=[^t]) before (?=s) is lost, so that s always
\* starts a syllable
AUTO_SPLIT_RE_s_unguarded(w, p) ==
    /\ p \in 1..Len(w)
    /\ LET cur == LowerChar(w[p])
           hasPrev == p >= 2
           prev == IF hasPrev THEN LowerChar(w[p - 1]) ELSE ""
       IN  \/ hasPrev /\ prev \notin {"s", "c"} /\ cur = "h"
           \/ /\ hasPrev
              /\ prev \notin {"k","s","t","n","h","f","m","r","w","p","b","d",
                              "g","z","c","j"}
              /\ cur = "y"
           \/ cur = "s"
           \/ cur \in {"k","t","n","f","m","r","w","p","b","d","g","z","c","j"}
           \/ /\ hasPrev
              /\ (prev \in Vowels \/ ~IsAlnum(w[p - 1]))
              /\ cur \in Vowels

\* AUTO_SPLIT_RE matches (the empty string) before w[p]: one of its five
\* alternatives holds there; (?i) makes every class case-insensitive.  A
\* lookbehind fails at the start of the word, a lookahead at its end.
AUTO_SPLIT_RE(w, p) ==
    /\ p \in 1..Len(w)
    /\ LET cur == LowerChar(w[p])
           hasPrev == p >= 2
           prev == IF hasPrev THEN LowerChar(w[p - 1]) ELSE ""
       IN  \/ hasPrev /\ prev \notin {"s", "c"} /\ cur = "h"
           \/ /\ hasPrev
              /\ prev \notin {"k","s","t","n","h","f","m","r","w","p","b","d",
                              "g","z","c","j"}
              /\ cur = "y"
           \/ hasPrev /\ prev # "t" /\ cur = "s"
           \/ cur \in {"k","t","n","f","m","r","w","p","b","d","g","z","c","j"}
           \/ /\ hasPrev
              /\ (prev \in Vowels \/ ~IsAlnum(w[p - 1]))
              /\ cur \in Vowels

RECURSIVE SubnFrom(_, _)
\* AUTO_SPLIT_RE.subn("#@", word), from position p on: "#@" goes in at every
\* position where the pattern matches
SubnFrom(w, p) ==
    IF p > Len(w) THEN <<>>
    ELSE (IF AUTO_SPLIT_RE(w, p) THEN <<"#", "@">> ELSE <<>>)
             \o <<w[p]>> \o SubnFrom(w, p + 1)

RECURSIVE SplitOn(_, _)
\* re.split(sep, s) and s.split(sep) for a literal separator: the pieces
\* between its occurrences, empty ones included
SplitOn(s, sep) ==
    LET n == Len(sep)
        hits == {i \in 1..(Len(s) - n + 1) : SubSeq(s, i, i + n - 1) = sep}
        first == CHOOSE i \in hits : \A k \in hits : i <= k
    IN  IF hits = {} THEN <<s>>
        ELSE <<SubSeq(s, 1, first - 1)>>
                 \o SplitOn(SubSeq(s, first + n, Len(s)), sep)

\* _CUSTOM_ENGLISH_SYLLABLES, in source order
CUSTOM_ENGLISH_SYLLABLES ==
    <<
        [key |-> <<"s","i","n","g","i","n","g">>,
         syllables |-> <<<<"s","i","n","g">>, <<"i","n","g">>>>],
        [key |-> <<"m","e","l","o","d","y">>,
         syllables |-> <<<<"m","e","l">>, <<"o">>, <<"d","y">>>>],
        [key |-> <<"k","a","r","a","o","k","e">>,
         syllables |-> <<<<"k","a","r">>, <<"a">>, <<"o">>, <<"k","e">>>>],
        [key |-> <<"r","h","y","t","h","m">>,
         syllables |-> <<<<"r","h","y","t","h","m">>>>],
        [key |-> <<"t","o","n","i","g","h","t">>,
         syllables |-> <<<<"t","o">>, <<"n","i","g","h","t">>>>],
        [key |-> <<"e","v","e","r","y","d","a","y">>,
         syllables |-> <<<<"e","v">>, <<"r","y">>, <<"d","a","y">>>>],
        [key |-> <<"s","o","m","e","d","a","y">>,
         syllables |-> <<<<"s","o","m","e">>, <<"d","a","y">>>>],
        [key |-> <<"s","u","n","d","a","y">>,
         syllables |-> <<<<"s","u","n">>, <<"d","a","y">>>>],
        [key |-> <<"m","o","n","d","a","y">>,
         syllables |-> <<<<"m","o","n">>, <<"d","a","y">>>>],
        [key |-> <<"t","u","e","s","d","a","y">>,
         syllables |-> <<<<"t","u","e","s">>, <<"d","a","y">>>>],
        [key |-> <<"w","e","d","n","e","s","d","a","y">>,
         syllables |-> <<<<"w","e","d","n","e","s">>, <<"d","a","y">>>>],
        [key |-> <<"t","h","u","r","s","d","a","y">>,
         syllables |-> <<<<"t","h","u","r","s">>, <<"d","a","y">>>>],
        [key |-> <<"f","r","i","d","a","y">>,
         syllables |-> <<<<"f","r","i">>, <<"d","a","y">>>>],
        [key |-> <<"s","a","t","u","r","d","a","y">>,
         syllables |-> <<<<"s","a","t">>, <<"u","r">>, <<"d","a","y">>>>],
        [key |-> <<"g","o","n","n","a">>,
         syllables |-> <<<<"g","o","n">>, <<"n","a">>>>],
        [key |-> <<"w","a","n","n","a">>,
         syllables |-> <<<<"w","a","n">>, <<"n","a">>>>],
        [key |-> <<"g","o","t","t","a">>,
         syllables |-> <<<<"g","o","t">>, <<"t","a">>>>],
        [key |-> <<"k","i","n","d","a">>,
         syllables |-> <<<<"k","i","n">>, <<"d","a">>>>],
        [key |-> <<"s","o","r","t","a">>,
         syllables |-> <<<<"s","o","r">>, <<"t","a">>>>],
        [key |-> <<"o","u","t","t","a">>,
         syllables |-> <<<<"o","u","t">>, <<"t","a">>>>],
        [key |-> <<"c","o","u","l","d","a">>,
         syllables |-> <<<<"c","o","u","l","d">>, <<"a">>>>],
        [key |-> <<"s","h","o","u","l","d","a">>,
         syllables |-> <<<<"s","h","o","u","l","d">>, <<"a">>>>],
        [key |-> <<"w","o","u","l","d","a">>,
         syllables |-> <<<<"w","o","u","l","d">>, <<"a">>>>],
        [key |-> <<"l","o","v","i","n","g">>,
         syllables |-> <<<<"l","o","v">>, <<"i","n","g">>>>],
        [key |-> <<"f","e","e","l","i","n","g">>,
         syllables |-> <<<<"f","e","e","l">>, <<"i","n","g">>>>],
        [key |-> <<"d","r","e","a","m","i","n","g">>,
         syllables |-> <<<<"d","r","e","a","m">>, <<"i","n","g">>>>],
        [key |-> <<"h","o","p","i","n","g">>,
         syllables |-> <<<<"h","o","p">>, <<"i","n","g">>>>],
        [key |-> <<"b","a","b","y">>,
         syllables |-> <<<<"b","a">>, <<"b","y">>>>],
        [key |-> <<"m","a","y","b","e">>,
         syllables |-> <<<<"m","a","y">>, <<"b","e">>>>],
        [key |-> <<"c","r","a","z","y">>,
         syllables |-> <<<<"c","r","a">>, <<"z","y">>>>],
        [key |-> <<"l","a","d","y">>,
         syllables |-> <<<<"l","a">>, <<"d","y">>>>],
        [key |-> <<"l","a","t","e","l","y">>,
         syllables |-> <<<<"l","a","t","e">>, <<"l","y">>>>],
        [key |-> <<"l","o","n","e","l","y">>,
         syllables |-> <<<<"l","o","n","e">>, <<"l","y">>>>],
        [key |-> <<"o","n","l","y">>,
         syllables |-> <<<<"o","n">>, <<"l","y">>>>],
        [key |-> <<"r","e","a","l","l","y">>,
         syllables |-> <<<<"r","e">>, <<"a","l">>, <<"l","y">>>>],
        [key |-> <<"y","e","a","h">>,
         syllables |-> <<<<"y","e","a","h">>>>],
        [key |-> <<"w","h","o","a">>,
         syllables |-> <<<<"w","h","o","a">>>>],
        [key |-> <<"w","o","a","h">>,
         syllables |-> <<<<"w","o","a","h">>>>]
    >>

CustomKeys == {CUSTOM_ENGLISH_SYLLABLES[i].key : i \in DOMAIN CUSTOM_ENGLISH_SYLLABLES}

\* _CUSTOM_ENGLISH_SYLLABLES[w]
CustomEntry(w) ==
    CUSTOM_ENGLISH_SYLLABLES[
        CHOOSE i \in DOMAIN CUSTOM_ENGLISH_SYLLABLES :
            CUSTOM_ENGLISH_SYLLABLES[i].key = w].syllables

\* the hyphenation positions pyphen may answer for a word: pyphen and its
\* en_US dictionary are not part of the repository, so any set of interior
\* positions is possible
Hyphenations(w) == SUBSET (1..(Len(w) - 1))

\* the answers the hyphenator may give while o.syllables is computed: it is
\* asked only for an English word that is no key of the custom table
HyphenatorAnswers(o) ==
    IF o.language = "en" /\ normalize_uroman(o.raw) \notin CustomKeys
    THEN Hyphenations(normalize_uroman(o.raw))
    ELSE {{}}

RECURSIVE InsertedFrom(_, _, _, _)
\* _ENGLISH_DICT.inserted(word, hyphen): the word with the hyphen after each
\* position of points
InsertedFrom(w, points, hyphen, p) ==
    IF p > Len(w) THEN <<>>
    ELSE <<w[p]>> \o (IF p \in points THEN hyphen ELSE <<>>)
             \o InsertedFrom(w, points, hyphen, p + 1)

split_english(w, points) ==
    IF w \in CustomKeys THEN CustomEntry(w)
    ELSE LET result == InsertedFrom(w, points, <<"|">>, 1)
         IN  IF result # <<>> THEN SplitOn(result, <<"|">>) ELSE <<w>>

auto_split(w, language, points) ==
    IF language = "en" THEN split_english(w, points)
    ELSE FilterNonEmpty(SplitOn(SubnFrom(w, 1), <<"#", "@">>))

\* Word.syllables; the body reads self.normalized
syllables(o, points) ==
    LET o1 == normalized(o)
    IN  cached_property(o, "syllables", o1,
                        auto_split(o1.normalized[1], o1.language, points))

----------------------------------------------------------------------------
(* SpecLine: one Line, built from an arbitrary raw string (the constructor *)
(* takes any str), whose properties and whose Words' properties are read.  *)

\* the characters the Line's raw text is drawn from: a letter, a capital,
\* a character outside the kept class, a space, a newline, a parenthesis
LineAlphabet == {"a", "B", "!", " ", "\n", "("}

\* "Hello,  World!\n\n(oohh)"
HelloWorld == <<"H","e","l","l","o",","," "," ","W","o","r","l","d","!",
                "\n","\n","(","o","o","h","h",")">>

\* "hello world\n(oohh)"
HelloWorldExpected == <<"h","e","l","l","o"," ","w","o","r","l","d",
                        "\n","(","o","o","h","h",")">>

InitLine ==
    /\ line \in {Line(r, "ja") :
                    r \in StringsUpTo(LineAlphabet, MaxLineLen) \cup {HelloWorld}}
    /\ lyrics = <<>>
    /\ insts = <<>>
    /\ observed = <<>>
    /\ firsts = <<>>
    /\ word = <<>>
    /\ held = <<>>
    /\ heap = <<>>
    /\ mutated = {}

ReadLineNormalized ==
    /\ line' = normalized(line)
    /\ UNCHANGED <<lyrics, word, insts, observed, firsts, held, heap, mutated>>

ReadLineTranscript ==
    /\ line' = transcript(line)
    /\ UNCHANGED <<lyrics, word, insts, observed, firsts, held, heap, mutated>>

ReadLineTranscriptForAlignment ==
    /\ line' = transcript_for_alignment(line)
    /\ UNCHANGED <<lyrics, word, insts, observed, firsts, held, heap, mutated>>

ReadLineWords ==
    /\ line' = words(line)
    /\ UNCHANGED <<lyrics, word, insts, observed, firsts, held, heap, mutated>>

\* word.normalized for the j-th Word of line.words
ReadWordNormalized(j) ==
    /\ line.words # <<>>
    /\ j \in 1..Len(line.words[1])
    /\ line' = [line EXCEPT !.words[1][j] = normalized(@)]
    /\ UNCHANGED <<lyrics, word, insts, observed, firsts, held, heap, mutated>>

\* word.transcript_for_alignment for the j-th Word of line.words
ReadWordTranscriptForAlignment(j) ==
    /\ line.words # <<>>
    /\ j \in 1..Len(line.words[1])
    /\ line' = [line EXCEPT !.words[1][j] = transcript_for_alignment(@)]
    /\ UNCHANGED <<lyrics, word, insts, observed, firsts, held, heap, mutated>>

NextLine ==
    \/ ReadLineNormalized
    \/ ReadLineTranscript
    \/ ReadLineTranscriptForAlignment
    \/ ReadLineWords
    \/ \E j \in 1..(MaxLineLen + 1) : ReadWordNormalized(j)
    \/ \E j \in 1..(MaxLineLen + 1) : ReadWordTranscriptForAlignment(j)

SpecLine == InitLine /\ [][NextLine]_vars

(* C2: normalize_uroman leaves no space immediately before or after a      *)
(* newline and no two adjacent newlines in its output, and                 *)
(* normalize_uroman("Hello,  World!\n\n(oohh)") is "hello world\n(oohh)".  *)
C2_NewlineRunsCollapsed ==
    line.normalized # <<>> =>
        LET n == line.normalized[1]
        IN  /\ \A i \in 1..(Len(n) - 1) :
                 /\ ~(n[i] = " " /\ n[i + 1] = "\n")
                 /\ ~(n[i] = "\n" /\ n[i + 1] = " ")
                 /\ ~(n[i] = "\n" /\ n[i + 1] = "\n")
            /\ (line.raw = HelloWorld => n = HelloWorldExpected)

(* C3: normalizing a normalized text changes nothing, and a Word built     *)
(* from a token of the Line's transcript has normalized equal to its raw.  *)
C3_NormalizeIdempotent ==
    /\ line.normalized # <<>> =>
           normalize_uroman(line.normalized[1]) = line.normalized[1]
    /\ line.words # <<>> =>
           \A j \in 1..Len(line.words[1]) :
               LET w == line.words[1][j]
               IN  w.normalized # <<>> => w.normalized[1] = w.raw

\* the Line's normalization changed its raw text, which held a newline and a
\* character outside the kept class, and a Word of it has been normalized
C3_Witness ==
    /\ line.normalized # <<>>
    /\ line.normalized[1] # line.raw
    /\ \E i \in 1..Len(line.raw) : line.raw[i] \notin Kept
    /\ \E i \in 1..Len(line.normalized[1]) : line.normalized[1][i] = "\n"
    /\ line.words # <<>>
    /\ \E j \in 1..Len(line.words[1]) : line.words[1][j].normalized # <<>>

(* C5: every Word of the Line's words has a transcript_for_alignment of    *)
(* exactly one non-empty token without parentheses, so the Line has as     *)
(* many Words as its transcript_for_alignment has tokens, the i-th Word's  *)
(* token being the i-th token of the Line's.                               *)
C5_OneAlignmentTokenPerWord ==
    line.words # <<>> =>
        LET ws == line.words[1]
        IN  /\ \A j \in 1..Len(ws) :
                 ws[j].transcript_for_alignment # <<>> =>
                     LET t == ws[j].transcript_for_alignment[1]
                     IN  /\ Len(t) = 1
                         /\ t[1] # <<>>
                         /\ \A i \in 1..Len(t[1]) : t[1][i] \notin {"(", ")"}
            /\ ( /\ line.transcript_for_alignment # <<>>
                 /\ \A j \in 1..Len(ws) : ws[j].transcript_for_alignment # <<>> )
               => /\ Len(ws) = Len(line.transcript_for_alignment[1])
                  /\ \A j \in 1..Len(ws) :
                       ws[j].transcript_for_alignment[1]
                           = <<line.transcript_for_alignment[1][j]>>

----------------------------------------------------------------------------
(* Spec: one Lyrics, whose properties and whose Lines' properties are read. *)

\* the characters the Lyrics' raw text is drawn from: a letter, a character
\* outside the kept class, a space, a newline
LyricsAlphabet == {"a", "!", " ", "\n"}

Init ==
    /\ lyrics \in {Lyrics(r, l) : r \in StringsUpTo(LyricsAlphabet, MaxLyricsLen),
                                  l \in {"ja", "en"}}
    /\ line = <<>>
    /\ insts = <<>>
    /\ observed = <<>>
    /\ firsts = <<>>
    /\ word = <<>>
    /\ held = <<>>
    /\ heap = <<>>
    /\ mutated = {}

ReadNormalized ==
    /\ lyrics' = normalized(lyrics)
    /\ UNCHANGED <<line, word, insts, observed, firsts, held, heap, mutated>>

ReadTranscript ==
    /\ lyrics' = transcript(lyrics)
    /\ UNCHANGED <<line, word, insts, observed, firsts, held, heap, mutated>>

ReadLines ==
    /\ lyrics' = lines(lyrics)
    /\ UNCHANGED <<line, word, insts, observed, firsts, held, heap, mutated>>

\* line.transcript for the i-th Line of lyrics.lines
ReadTranscriptOfLine(i) ==
    /\ lyrics.lines # <<>>
    /\ i \in 1..Len(lyrics.lines[1])
    /\ lyrics' = [lyrics EXCEPT !.lines[1][i] = transcript(@)]
    /\ UNCHANGED <<line, word, insts, observed, firsts, held, heap, mutated>>

\* line.words for the i-th Line of lyrics.lines
ReadWordsOfLine(i) ==
    /\ lyrics.lines # <<>>
    /\ i \in 1..Len(lyrics.lines[1])
    /\ lyrics' = [lyrics EXCEPT !.lines[1][i] = words(@)]
    /\ UNCHANGED <<line, word, insts, observed, firsts, held, heap, mutated>>

Next ==
    \/ ReadNormalized
    \/ ReadTranscript
    \/ ReadLines
    \/ \E i \in 1..(MaxLyricsLen + 1) : ReadTranscriptOfLine(i)
    \/ \E i \in 1..(MaxLyricsLen + 1) : ReadWordsOfLine(i)

Spec == Init /\ [][Next]_vars

\* the positions of lyrics.raw where a non-empty raw line starts
LineStarts ==
    {p \in 1..Len(lyrics.raw) :
        /\ lyrics.raw[p] \notin LineBoundaries
        /\ (p = 1 \/ lyrics.raw[p - 1] \in LineBoundaries)}

\* the raw line that starts at position p: up to the next boundary or the end
RawLineAt(p) ==
    LET q == CHOOSE q \in p..Len(lyrics.raw) :
                 /\ \A k \in p..q : lyrics.raw[k] \notin LineBoundaries
                 /\ (q = Len(lyrics.raw) \/ lyrics.raw[q + 1] \in LineBoundaries)
    IN  SubSeq(lyrics.raw, p, q)

(* C6 as stated: when the raw text normalizes to the empty string, the     *)
(* Lyrics' transcript is empty and its lines hold no Line.                 *)
C6_DegenerateYieldsNoLines ==
    normalize_uroman(lyrics.raw) = <<>> =>
        /\ lyrics.transcript # <<>> => lyrics.transcript[1] = <<>>
        /\ lyrics.lines # <<>> => lyrics.lines[1] = <<>>

(* C6 as amended: when the raw text normalizes to the empty string, the    *)
(* Lyrics' transcript is empty, every Line of its lines has an empty       *)
(* transcript and no Word, and lines holds one Line per non-empty raw      *)
(* line: none exactly when the raw text holds line breaks only.            *)
C6_DegenerateYieldsNoWords ==
    (lyrics.normalized # <<>> /\ lyrics.normalized[1] = <<>>) =>
        /\ lyrics.transcript # <<>> => lyrics.transcript[1] = <<>>
        /\ lyrics.lines # <<>> =>
             /\ Len(lyrics.lines[1]) = Cardinality(LineStarts)
             /\ (lyrics.lines[1] = <<>>) <=>
                    (\A p \in 1..Len(lyrics.raw) : lyrics.raw[p] \in LineBoundaries)
             /\ \A i \in 1..Len(lyrics.lines[1]) :
                  LET ln == lyrics.lines[1][i]
                  IN  /\ ln.transcript # <<>> => ln.transcript[1] = <<>>
                      /\ ln.words # <<>> => ln.words[1] = <<>>

\* a raw text of spaces and disallowed characters with a line break: it
\* normalized to the empty string, its transcript is empty, and its lines
\* hold two Lines whose words were read
C6_Witness ==
    /\ lyrics.normalized # <<>> /\ lyrics.normalized[1] = <<>>
    /\ lyrics.transcript # <<>>
    /\ lyrics.lines # <<>> /\ Len(lyrics.lines[1]) = 2
    /\ \A i \in 1..Len(lyrics.lines[1]) : lyrics.lines[1][i].words # <<>>
    /\ \E p \in 1..Len(lyrics.raw) : lyrics.raw[p] = "!"
    /\ \E p \in 1..Len(lyrics.raw) : lyrics.raw[p] = " "

(* C7: lyrics.lines is the sequence of the non-empty raw lines, top to     *)
(* bottom, none with an empty raw; line.words is the sequence of the       *)
(* tokens of line.transcript, left to right, none with an empty raw; each  *)
(* Line and each Word carries the language of the Lyrics.                  *)
C7_TokenizerOrderAndNonEmptiness ==
    lyrics.lines # <<>> =>
        LET ls == lyrics.lines[1]
        IN  /\ Len(ls) = Cardinality(LineStarts)
            /\ \A i \in 1..Len(ls) :
                 /\ ls[i].raw # <<>>
                 /\ ls[i].language = lyrics.language
                 /\ \E p \in LineStarts :
                      /\ Cardinality({q \in LineStarts : q < p}) = i - 1
                      /\ ls[i].raw = RawLineAt(p)
                 /\ ls[i].words # <<>> =>
                      LET ws == ls[i].words[1]
                          toks == ls[i].transcript[1]
                      IN  /\ Len(ws) = Len(toks)
                          /\ \A j \in 1..Len(ws) :
                               /\ ws[j].raw = toks[j]
                               /\ ws[j].raw # <<>>
                               /\ \A k \in 1..Len(ws[j].raw) :
                                    ws[j].raw[k] \notin Whitespace
                               /\ ws[j].language = lyrics.language

\* two Lines around a dropped blank line, one of them with its Words read
C7_Witness ==
    /\ lyrics.lines # <<>> /\ Len(lyrics.lines[1]) = 2
    /\ \E p \in 1..(Len(lyrics.raw) - 1) :
           lyrics.raw[p] = "\n" /\ lyrics.raw[p + 1] = "\n"
    /\ lyrics.language = "en"
    /\ \E i \in 1..2 : /\ lyrics.lines[1][i].words # <<>>
                       /\ Len(lyrics.lines[1][i].words[1]) >= 1

----------------------------------------------------------------------------
(* SpecSplit: one Word whose syllables are read.                           *)

\* one character of each class AUTO_SPLIT_RE tells apart (h, y, s, t, c, one
\* of the other consonants that start a syllable, vowels, a character that
\* is not alphanumeric, a letter no alternative names)
JaAlphabet == {"h", "y", "s", "t", "c", "k", "o", "u", "'", "l"}

\* the characters of the words given to the hyphenator
EnAlphabet == {"a", "l", "'"}

Kyou == <<"k","y","o","u">>
Wonderful == <<"w","o","n","d","e","r","f","u","l">>

\* the language selectors a caller may pass: the two supported ones and one
\* that is neither
Languages == {"ja", "en", "fr"}

WordsFor(language) ==
    IF language = "en"
    THEN (StringsUpTo(EnAlphabet, MaxWordLen) \ {<<>>}) \cup CustomKeys \cup {Wonderful}
    ELSE (StringsUpTo(JaAlphabet, MaxWordLen) \ {<<>>}) \cup {Kyou}

InitSplit ==
    /\ word \in UNION {{Word(w, l) : w \in WordsFor(l)} : l \in Languages}
    /\ line = <<>>
    /\ lyrics = <<>>
    /\ insts = <<>>
    /\ observed = <<>>
    /\ firsts = <<>>
    /\ held = <<>>
    /\ heap = <<>>
    /\ mutated = {}

ReadSyllables ==
    /\ \E points \in HyphenatorAnswers(word) : word' = syllables(word, points)
    /\ UNCHANGED <<line, lyrics, insts, observed, firsts, held, heap, mutated>>

NextSplit == ReadSyllables

SpecSplit == InitSplit /\ [][NextSplit]_vars

(* C1: the syllables of a non-empty normalized word, in either language,   *)
(* concatenate to exactly the word.                                        *)
C1_SyllablesReconstructWord ==
    (word.syllables # <<>> /\ word.language \in {"ja", "en"}) =>
        Concat(word.syllables[1]) = word.normalized[1]

(* C4: a language selector that is neither "ja" nor "en" yields no         *)
(* segmentation result.                                                    *)
C4_InvalidLanguageYieldsNoResult ==
    word.language \notin {"ja", "en"} => word.syllables = <<>>

\* where a syllable boundary of the Word lies: the lengths of the proper,
\* non-empty prefixes of its syllable sequence, plus one
Boundaries ==
    LET syl == word.syllables[1]
    IN  {Len(Concat(SubSeq(syl, 1, k))) + 1 : k \in 1..(Len(syl) - 1)}

\* the five rules of the claim, at 1-based position p of w
C9_Rule(w, p) ==
    LET cur == w[p]
        prev == w[p - 1]
    IN  \/ cur = "h" /\ prev \notin {"s", "c"}
        \/ cur = "y" /\ prev \notin {"k","s","t","n","h","f","m","r","w","p",
                                     "b","d","g","z","c","j"}
        \/ cur = "s" /\ prev # "t"
        \/ cur \in {"k","t","n","f","m","r","w","p","b","d","g","z","c","j"}
        \/ cur \in Vowels /\ (prev \in Vowels \/ prev \in {"'", "(", ")"})

(* C9: auto_split(w, "ja") puts a boundary before position p, strictly     *)
(* inside the word, exactly where one of the five rules holds; so the      *)
(* consonants k t n f m r w p b d g z c j only start syllables, sh, ch, ts *)
(* and a listed consonant followed by y are never split, and "kyou" gives  *)
(* ["kyo", "u"].                                                           *)
C9_JapaneseBoundaries ==
    (word.syllables # <<>> /\ word.language = "ja") =>
        LET w == word.normalized[1]
            syl == word.syllables[1]
        IN  /\ Concat(syl) = w
            /\ \A k \in 1..Len(syl) : syl[k] # <<>>
            /\ Boundaries = {p \in 2..Len(w) : C9_Rule(w, p)}
            /\ \A k \in 1..Len(syl) : \A i \in 2..Len(syl[k]) :
                 syl[k][i] \notin {"k","t","n","f","m","r","w","p","b","d","g",
                                   "z","c","j"}
            /\ \A p \in 2..Len(w) :
                 ( \/ w[p - 1] \in {"s", "c"} /\ w[p] = "h"
                   \/ w[p - 1] = "t" /\ w[p] = "s"
                   \/ /\ w[p - 1] \in {"k","s","t","n","h","f","m","r","w","p",
                                       "b","d","g","z","c","j"}
                      /\ w[p] = "y" )
                 => p \notin Boundaries
            /\ (w = Kyou => syl = <<<<"k","y","o">>, <<"u">>>>)

\* "kyou" has been split in Japanese
C9_Witness ==
    /\ word.raw = Kyou
    /\ word.language = "ja"
    /\ word.syllables = <<<<<<"k","y","o">>, <<"u">>>>>>

----------------------------------------------------------------------------
(* SpecMemo: two instances, of any of the three classes, whose properties  *)
(* are read in any order, any number of times.  observed is what the last  *)
(* read returned; firsts is what the first read of each property of each   *)
(* instance returned.                                                      *)

\* "ka yo"
KaYo == <<"k","a"," ","y","o">>
\* "(a)\nB"
ParenLines == <<"(","a",")","\n","B">>

\* "gonna"
Gonna == <<"g","o","n","n","a">>

\* one Lyrics, one Line, and two Words of different text and language
MemoInstances ==
    {Lyrics(ParenLines, "ja"), Line(KaYo, "ja"), Word(KaYo, "ja"), Word(Gonna, "en")}

\* the cached properties of an instance's class
Properties(o) ==
    {"normalized", "transcript", "transcript_for_alignment"}
        \cup (IF o.class = "Lyrics" THEN {"lines"}
              ELSE IF o.class = "Line" THEN {"words"} ELSE {"syllables"})

\* the instance after its property f was read
Get(o, f, points) ==
    CASE f = "normalized" -> normalized(o)
      [] f = "transcript" -> transcript(o)
      [] f = "transcript_for_alignment" -> transcript_for_alignment(o)
      [] f = "lines" -> lines(o)
      [] f = "words" -> words(o)
      [] f = "syllables" -> syllables(o, points)

\* the instance as it was constructed: same fields, nothing cached
Fresh(o) ==
    [o EXCEPT !.normalized = <<>>, !.transcript = <<>>,
              !.transcript_for_alignment = <<>>,
              ![CHOOSE f \in Properties(o) \ {"normalized", "transcript",
                                              "transcript_for_alignment"} : TRUE] = <<>>,
              !.computed = NeverComputed]

InitMemo ==
    /\ insts \in [1..2 -> MemoInstances]
    /\ observed = <<>>
    /\ firsts = [i \in 1..2 |-> [f \in DOMAIN NeverComputed |-> <<>>]]
    /\ line = <<>>
    /\ lyrics = <<>>
    /\ word = <<>>
    /\ held = <<>>
    /\ heap = <<>>
    /\ mutated = {}

\* insts[i].f is read
Read(i, f) ==
    /\ f \in Properties(insts[i])
    /\ \E points \in (IF f = "syllables" THEN HyphenatorAnswers(insts[i]) ELSE {{}}) :
         LET o == Get(insts[i], f, points)
         IN  /\ insts' = [insts EXCEPT ![i] = o]
             /\ observed' = <<[inst |-> i, field |-> f, value |-> o[f][1]]>>
             /\ firsts' = IF firsts[i][f] = <<>>
                          THEN [firsts EXCEPT ![i][f] = <<o[f][1]>>]
                          ELSE firsts
    /\ UNCHANGED <<line, lyrics, word, held, heap, mutated>>

NextMemo == \E i \in 1..2 : \E f \in DOMAIN NeverComputed : Read(i, f)

SpecMemo == InitMemo /\ [][NextMemo]_vars

(* C8: over any sequence of reads, the body of each property of each       *)
(* instance has run at most once, exactly once as soon as the property was *)
(* read or is cached; every read returns what the first read of that       *)
(* property on that instance returned; and what a read returns is what the *)
(* instance's own fields give, whatever the other instance has cached.     *)
C8_ComputedOncePerInstance ==
    /\ \A i \in 1..2 : \A f \in Properties(insts[i]) :
         /\ insts[i].computed[f] <= 1
         /\ (firsts[i][f] # <<>> \/ insts[i][f] # <<>>) <=> insts[i].computed[f] = 1
    /\ observed # <<>> =>
         LET r == observed[1]
         IN  /\ r.value = firsts[r.inst][r.field][1]
             /\ r.value = insts[r.inst][r.field][1]
             /\ \E points \in HyphenatorAnswers(insts[r.inst]) :
                  r.value = Get(Fresh(insts[r.inst]), r.field, points)[r.field][1]

\* both instances are of one class with different raw texts, and every
\* property of both has been read
C8_Witness ==
    /\ insts[1].class = insts[2].class
    /\ insts[1].raw # insts[2].raw
    /\ \A i \in 1..2 : \A f \in Properties(insts[i]) :
         insts[i][f] # <<>> /\ firsts[i][f] # <<>>
    /\ observed # <<>>
    /\ observed[1].field \in {"lines", "words", "syllables"}

----------------------------------------------------------------------------
(* SpecAlias: two Words whose syllables are read and then modified in      *)
(* place by the caller.  A list object lives in heap; a syllables slot and *)
(* the custom table hold references (positions in heap).                   *)

Baby == <<"b","a","b","y">>

\* the list objects that exist once the module is imported: the values of
\* _CUSTOM_ENGLISH_SYLLABLES, the i-th entry's list at position i
ImportedHeap ==
    [i \in DOMAIN CUSTOM_ENGLISH_SYLLABLES |-> CUSTOM_ENGLISH_SYLLABLES[i].syllables]

\* the list object split_english returns, and the heap after the call: the
\* table's own list for a key of the table, a new list otherwise
split_english_object(w, points, h) ==
    IF w \in CustomKeys
    THEN [ref |-> CHOOSE i \in DOMAIN CUSTOM_ENGLISH_SYLLABLES :
                      CUSTOM_ENGLISH_SYLLABLES[i].key = w,
          heap |-> h]
    ELSE [ref |-> Len(h) + 1, heap |-> Append(h, split_english(w, points))]

\* the list object auto_split returns, and the heap after the call
auto_split_object(w, language, points, h) ==
    IF language = "en" THEN split_english_object(w, points, h)
    ELSE [ref |-> Len(h) + 1, heap |-> Append(h, auto_split(w, language, points))]

\* Word.syllables, holding a reference: the instance and the heap after the read
syllables_object(o, points, h) ==
    LET o1 == normalized(o)
        r == auto_split_object(o1.normalized[1], o1.language, points, h)
    IN  IF o.syllables # <<>> THEN [obj |-> o, heap |-> h]
        ELSE [obj |-> cached_property(o, "syllables", o1, r.ref), heap |-> r.heap]

AliasWords ==
    {Word(w, "ja") : w \in {Gonna, Baby, Kyou}}
        \cup {Word(w, "en") : w \in {Gonna, Baby}}

InitAlias ==
    /\ held \in [1..2 -> AliasWords]
    /\ heap = ImportedHeap
    /\ mutated = {}
    /\ line = <<>>
    /\ lyrics = <<>>
    /\ word = <<>>
    /\ insts = <<>>
    /\ observed = <<>>
    /\ firsts = <<>>

\* held[i].syllables is read
ReadHeldSyllables(i) ==
    /\ \E points \in HyphenatorAnswers(held[i]) :
         LET r == syllables_object(held[i], points, heap)
         IN  /\ held' = [held EXCEPT ![i] = r.obj]
             /\ heap' = r.heap
    /\ UNCHANGED <<line, lyrics, word, insts, observed, firsts, mutated>>

\* held[i].syllables.pop(): the caller modifies in place the list it got
PopHeldSyllable(i) ==
    /\ \E points \in HyphenatorAnswers(held[i]) :
         LET r == syllables_object(held[i], points, heap)
             ref == r.obj.syllables[1]
         IN  /\ r.heap[ref] # <<>>
             /\ held' = [held EXCEPT ![i] = r.obj]
             /\ heap' = [r.heap EXCEPT ![ref] = SubSeq(@, 1, Len(@) - 1)]
    /\ mutated' = mutated \cup {i}
    /\ UNCHANGED <<line, lyrics, word, insts, observed, firsts>>

NextAlias ==
    \/ \E i \in 1..2 : ReadHeldSyllables(i)
    \/ \E i \in 1..2 : PopHeldSyllable(i)

SpecAlias == InitAlias /\ [][NextAlias]_vars

(* C10: whatever is read and then modified in place through one Word, the  *)
(* custom table keeps its entries, and the syllables held by every Word    *)
(* whose own list was not modified are still the split of its own text.    *)
C10_NoSharedSyllableState ==
    /\ \A t \in DOMAIN CUSTOM_ENGLISH_SYLLABLES :
         heap[t] = CUSTOM_ENGLISH_SYLLABLES[t].syllables
    /\ \A j \in 1..2 :
         (held[j].syllables # <<>> /\ j \notin mutated) =>
             heap[held[j].syllables[1]]
                 = auto_split(held[j].normalized[1], held[j].language, {})

====
